---- MODULE Spec2Model ----
(***************************************************************************)
(* PriorityList<T> of src/src/priority.rs: two vectors, `selected` (the    *)
(* prioritized sequence, index 0 = highest priority) and `remaining`.      *)
(* Vectors are TLA+ sequences; the Rust index k is the TLA+ index k + 1.   *)
(* Every public method is a pure operator from the list (and arguments) to *)
(* an outcome [pl, ret]; one action per method applies it to the state.    *)
(* Spec is the list under the calls of a caller.  AppSpec is the terminal  *)
(* application of src/src/main.rs: App::new, then the loop of App::run.     *)
(***************************************************************************)
EXTENDS Integers, Sequences, FiniteSets

\* Largest number of elements a list holds in the model.
MaxLen == 3

\* Element values supplied by callers (those of the documented scenarios).
Elems == {1, 3, 5, 9, 77}

\* usize arguments tried for indices and priority levels: in range, equal to
\* the length, and beyond it.
Indices == 0 .. (MaxLen + 1)

RECURSIVE SeqsUpTo(_)
SeqsUpTo(k) ==
    IF k = 0 THEN {<<>>}
    ELSE LET shorter == SeqsUpTo(k - 1)
         IN  shorter \cup {Append(s, e) : s \in {t \in shorter : Len(t) = k - 1}, e \in Elems}

VARIABLES
    selected,   \* PriorityList.selected
    remaining,  \* PriorityList.remaining
    call,       \* the last method called, with its arguments
    ret,        \* what that call returned (or that it panicked)
    old,        \* the list as it was when that call was made
    supplied,   \* how many times each element was handed to the list
    pushed,     \* the arguments of the push calls made so far, in order
    appended_only, \* the list was made by new() and only push and the
                \* read-only methods have been called on it
    app,        \* the App of src/src/main.rs
    status,     \* where App::run stands: running, or how it ended
    overflow_checks \* the build panics on integer overflow (else it wraps)

listvars == <<selected, remaining, call, ret, old, supplied, pushed, appended_only>>

appvars == <<app, status, overflow_checks>>

vars == <<selected, remaining, call, ret, old, supplied, pushed, appended_only,
          app, status, overflow_checks>>

history == <<supplied, pushed, appended_only>>

----------------------------------------------------------------------------
(* Return values *)

Unit      == [kind |-> "unit"]
None      == [kind |-> "none"]
Some(x)   == [kind |-> "some", value |-> x]
Iter(v)   == [kind |-> "iter", items |-> v]
Panic     == [kind |-> "panic"]

----------------------------------------------------------------------------
(* The Vec and iterator primitives the methods call *)

\* Vec::first
VecFirst(v) == IF Len(v) = 0 THEN None ELSE Some(Head(v))

\* Iterator::nth over Vec::iter: advance past n items, return the next one.
RECURSIVE IterNth(_, _)
IterNth(v, n) ==
    IF v = <<>> THEN None
    ELSE IF n = 0 THEN Some(Head(v))
    ELSE IterNth(Tail(v), n - 1)

\* Vec::push
VecPush(v, element) == Append(v, element)

\* Vec::insert: panics when index > len, before the vector is touched.
VecInsert(v, index, element) ==
    IF index > Len(v)
    THEN [panic |-> TRUE, vec |-> v]
    ELSE [panic |-> FALSE,
          vec   |-> SubSeq(v, 1, index) \o <<element>> \o SubSeq(v, index + 1, Len(v))]

\* Vec::remove: panics when index >= len, before the vector is touched.
VecRemove(v, index) ==
    IF index >= Len(v)
    THEN [panic |-> TRUE, vec |-> v]
    ELSE [panic |-> FALSE,
          vec   |-> SubSeq(v, 1, index) \o SubSeq(v, index + 2, Len(v)),
          elem  |-> v[index + 1]]

----------------------------------------------------------------------------
(* PriorityList<T> and its methods *)

PriorityList(sel, rem) == [selected |-> sel, remaining |-> rem]

new == PriorityList(<<>>, <<>>)

\* Variant: the given vector seeds `remaining` instead of `selected`.
from_into_remaining(value) == PriorityList(<<>>, value)

from(value) == PriorityList(value, <<>>)

priority_first(self) == [pl |-> self, ret |-> VecFirst(self.selected)]

\* Variant: the rank is taken as one-based against a zero-based iterator.
priority_nth_off_by_one(self, n) == [pl |-> self, ret |-> IterNth(self.selected, n + 1)]

priority_nth(self, n) == [pl |-> self, ret |-> IterNth(self.selected, n)]

\* Variant: the element is put at the front of `remaining`.
push_front(self, element) ==
    [pl  |-> PriorityList(self.selected, <<element>> \o self.remaining),
     ret |-> Unit]

push(self, element) ==
    [pl  |-> PriorityList(self.selected, VecPush(self.remaining, element)),
     ret |-> Unit]

\* Variant: the element is pushed to the end of `selected`.
push_set_first_at_end(self, element) ==
    [pl |-> PriorityList(VecPush(self.selected, element), self.remaining), ret |-> Unit]

push_set_first(self, element) ==
    LET ins == VecInsert(self.selected, 0, element)
    IN  IF ins.panic THEN [pl |-> self, ret |-> Panic]
        ELSE [pl |-> PriorityList(ins.vec, self.remaining), ret |-> Unit]

view_priority_list(self) == [pl |-> self, ret |-> Iter(self.selected)]

\* Variant: the iterator is taken over `selected`.
view_remaining_of_selected(self) == [pl |-> self, ret |-> Iter(self.selected)]

view_remaining(self) == [pl |-> self, ret |-> Iter(self.remaining)]

\* Variant: the index is checked the right way round, but the element is
\* cloned into `selected` and left in `remaining`.
select_cloning(self, n) ==
    IF n < Len(self.remaining)
    THEN [pl  |-> PriorityList(VecPush(self.selected, self.remaining[n + 1]), self.remaining),
          ret |-> Unit]
    ELSE [pl |-> self, ret |-> Unit]

\* Variant: the index is checked the right way round (n < len).
select_index_checked(self, n) ==
    IF n < Len(self.remaining)
    THEN LET rm == VecRemove(self.remaining, n)
         IN  IF rm.panic THEN [pl |-> self, ret |-> Panic]
             ELSE [pl  |-> PriorityList(VecPush(self.selected, rm.elem), rm.vec),
                   ret |-> Unit]
    ELSE [pl |-> self, ret |-> Unit]

select(self, n) ==
    IF Len(self.remaining) < n
    THEN LET rm == VecRemove(self.remaining, n)
         IN  IF rm.panic THEN [pl |-> self, ret |-> Panic]
             ELSE [pl  |-> PriorityList(VecPush(self.selected, rm.elem), rm.vec),
                   ret |-> Unit]
    ELSE [pl |-> self, ret |-> Unit]

\* Variant: the index is checked the right way round (n < len), the
\* priority level not at all.
select_set_nth_index_checked(self, n, priority_level) ==
    IF n < Len(self.remaining)
    THEN LET rm == VecRemove(self.remaining, n)
         IN  IF rm.panic THEN [pl |-> self, ret |-> Panic]
             ELSE LET ins == VecInsert(self.selected, priority_level, rm.elem)
                  IN  IF ins.panic
                      THEN [pl |-> PriorityList(self.selected, rm.vec), ret |-> Panic]
                      ELSE [pl |-> PriorityList(ins.vec, rm.vec), ret |-> Unit]
    ELSE [pl |-> self, ret |-> Unit]

\* A panic in the insertion comes after the removal: the element is dropped
\* with the unwinding frame and `remaining` stays one shorter.
select_set_nth(self, n, priority_level) ==
    IF Len(self.remaining) < n
    THEN LET rm == VecRemove(self.remaining, n)
         IN  IF rm.panic THEN [pl |-> self, ret |-> Panic]
             ELSE LET ins == VecInsert(self.selected, priority_level, rm.elem)
                  IN  IF ins.panic
                      THEN [pl |-> PriorityList(self.selected, rm.vec), ret |-> Panic]
                      ELSE [pl |-> PriorityList(ins.vec, rm.vec), ret |-> Unit]
    ELSE [pl |-> self, ret |-> Unit]

select_set_first(self, n) == select_set_nth(self, n, 0)

----------------------------------------------------------------------------
(* The terminal application of src/src/main.rs.  An App is the record      *)
(* [currently_left, items, divider_percentage]; items is a PlatformList     *)
(* [state, items], each of whose items holds a DeviceList [state, items].   *)
(* A ListState is modelled by its selected index, an Option<usize>.         *)
(* A handler yields [app, status]: status is "running", or tells how the    *)
(* run ended.                                                               *)

\* Largest number of platforms, and of devices of one platform.
MaxPlatforms == 1
MaxDevices == 2

\* Width of usize in the model.  (The values that matter are 0, the list
\* lengths and the wrapped-around usize::MAX.)
UsizeBits == 16
UsizeModulus == 2 ^ UsizeBits

\* u16, the type of divider_percentage.
U16Bits == 16
U16Modulus == 2 ^ U16Bits

\* a - b on unsigned integers of the given modulus.
UnsignedSub(a, b, modulus) ==
    IF a >= b THEN [value |-> a - b, overflow |-> FALSE]
    ELSE [value |-> a - b + modulus, overflow |-> TRUE]

\* How a computation that met the given overflow ends: a build with overflow
\* checks panics; one without goes on with the wrapped value, which the model
\* marks and does not follow further.
AfterOverflow(overflow) ==
    IF ~overflow THEN "running"
    ELSE IF overflow_checks THEN "overflow_panic"
    ELSE "wrapped"

\* u16::saturating_add_signed
SaturatingAddSigned(x, length) ==
    LET sum == x + length
    IN  IF sum < 0 THEN 0 ELSE IF sum > U16Modulus - 1 THEN U16Modulus - 1 ELSE sum

Min(a, b) == IF a <= b THEN a ELSE b

\* A ListState as constructed by ListState::default(), and ListState::select.
ListState_default == None

ListState_select(state, index) == index

\* PlatformList::from_platforms; a platform is given by its sequence of devices.
from_platforms(platforms) ==
    [state |-> ListState_default,
     items |-> [p \in 1 .. Len(platforms) |->
                   [info    |-> p,
                    devices |-> [state |-> ListState_default,
                                 items |-> platforms[p]]]]]

App_new(platforms) ==
    [currently_left     |-> TRUE,
     items              |-> from_platforms(platforms),
     divider_percentage |-> 40]

PlatformList_next(self) ==
    IF self.state.kind = "none"
    THEN [list |-> [self EXCEPT !.state = ListState_select(@, Some(0))], status |-> "running"]
    ELSE LET last == UnsignedSub(Len(self.items), 1, UsizeModulus)
             i    == IF self.state.value >= last.value THEN 0 ELSE self.state.value + 1
         IN  IF AfterOverflow(last.overflow) = "overflow_panic"
             THEN [list |-> self, status |-> "overflow_panic"]
             ELSE [list   |-> [self EXCEPT !.state = ListState_select(@, Some(i))],
                   status |-> AfterOverflow(last.overflow)]

PlatformList_previous(self) ==
    IF self.state.kind = "none"
    THEN [list |-> [self EXCEPT !.state = ListState_select(@, Some(0))], status |-> "running"]
    ELSE IF self.state.value = 0
    THEN LET last == UnsignedSub(Len(self.items), 1, UsizeModulus)
         IN  IF AfterOverflow(last.overflow) = "overflow_panic"
             THEN [list |-> self, status |-> "overflow_panic"]
             ELSE [list   |-> [self EXCEPT !.state = ListState_select(@, Some(last.value))],
                   status |-> AfterOverflow(last.overflow)]
    ELSE [list   |-> [self EXCEPT !.state = ListState_select(@, Some(self.state.value - 1))],
          status |-> "running"]

DeviceList_next(self) ==
    IF self.state.kind = "none"
    THEN [list |-> [self EXCEPT !.state = ListState_select(@, Some(0))], status |-> "running"]
    ELSE LET last == UnsignedSub(Len(self.items), 1, UsizeModulus)
             i    == IF self.state.value >= last.value THEN 0 ELSE self.state.value + 1
         IN  IF AfterOverflow(last.overflow) = "overflow_panic"
             THEN [list |-> self, status |-> "overflow_panic"]
             ELSE [list   |-> [self EXCEPT !.state = ListState_select(@, Some(i))],
                   status |-> AfterOverflow(last.overflow)]

DeviceList_previous(self) ==
    IF self.state.kind = "none"
    THEN [list |-> [self EXCEPT !.state = ListState_select(@, Some(0))], status |-> "running"]
    ELSE IF self.state.value = 0
    THEN LET last == UnsignedSub(Len(self.items), 1, UsizeModulus)
         IN  IF AfterOverflow(last.overflow) = "overflow_panic"
             THEN [list |-> self, status |-> "overflow_panic"]
             ELSE [list   |-> [self EXCEPT !.state = ListState_select(@, Some(last.value))],
                   status |-> AfterOverflow(last.overflow)]
    ELSE [list   |-> [self EXCEPT !.state = ListState_select(@, Some(self.state.value - 1))],
          status |-> "running"]

\* self.items.items.get_mut(i).unwrap() succeeds.
HasPlatform(self, i) == i < Len(self.items.items)

\* The App with the device list of platform i replaced.
WithDevices(self, i, devices) == [self EXCEPT !.items.items[i + 1].devices = devices]

Running(self) == [app |-> self, status |-> "running"]

change_status(self) == Running(self)

go_top(self) ==
    IF self.currently_left
    THEN Running([self EXCEPT !.items.state = ListState_select(@, Some(0))])
    ELSE IF self.items.state.kind = "some"
    THEN LET i == self.items.state.value
         IN  IF ~HasPlatform(self, i) THEN [app |-> self, status |-> "unwrap_panic"]
             ELSE Running([self EXCEPT !.items.items[i + 1].devices.state =
                                            ListState_select(@, Some(0))])
    ELSE Running(self)

go_bottom(self) ==
    IF self.currently_left
    THEN LET last == UnsignedSub(Len(self.items.items), 1, UsizeModulus)
         IN  IF AfterOverflow(last.overflow) = "overflow_panic"
             THEN [app |-> self, status |-> "overflow_panic"]
             ELSE [app    |-> [self EXCEPT !.items.state =
                                               ListState_select(@, Some(last.value))],
                   status |-> AfterOverflow(last.overflow)]
    ELSE IF self.items.state.kind = "some"
    THEN LET i == self.items.state.value
         IN  IF ~HasPlatform(self, i) THEN [app |-> self, status |-> "unwrap_panic"]
             ELSE LET device_list == self.items.items[i + 1].devices
                      last == UnsignedSub(Len(device_list.items), 1, UsizeModulus)
                  IN  IF AfterOverflow(last.overflow) = "overflow_panic"
                      THEN [app |-> self, status |-> "overflow_panic"]
                      ELSE [app    |-> [self EXCEPT !.items.items[i + 1].devices.state =
                                                        ListState_select(@, Some(last.value))],
                            status |-> AfterOverflow(last.overflow)]
    ELSE Running(self)

\* Variant: the sum is not capped at 100.
move_divider_uncapped(self, length) ==
    Running([self EXCEPT !.divider_percentage = SaturatingAddSigned(@, length)])

move_divider(self, length) ==
    Running([self EXCEPT !.divider_percentage = Min(SaturatingAddSigned(@, length), 100)])

move_right(self) == Running([self EXCEPT !.currently_left = FALSE])

move_left(self) == Running([self EXCEPT !.currently_left = TRUE])

App_next(self) ==
    IF self.currently_left
    THEN LET out == PlatformList_next(self.items)
         IN  [app |-> [self EXCEPT !.items = out.list], status |-> out.status]
    ELSE IF self.items.state.kind = "some"
    THEN LET i == self.items.state.value
         IN  IF ~HasPlatform(self, i) THEN [app |-> self, status |-> "unwrap_panic"]
             ELSE LET out == DeviceList_next(self.items.items[i + 1].devices)
                  IN  [app |-> WithDevices(self, i, out.list), status |-> out.status]
    ELSE Running(self)

App_previous(self) ==
    IF self.currently_left
    THEN LET out == PlatformList_previous(self.items)
         IN  [app |-> [self EXCEPT !.items = out.list], status |-> out.status]
    ELSE IF self.items.state.kind = "some"
    THEN LET i == self.items.state.value
         IN  IF ~HasPlatform(self, i) THEN [app |-> self, status |-> "unwrap_panic"]
             ELSE LET out == DeviceList_previous(self.items.items[i + 1].devices)
                  IN  [app |-> WithDevices(self, i, out.list), status |-> out.status]
    ELSE Running(self)

\* StatefulWidget::render of a List of `len` items on a ListState.  The list
\* widget may bring a selection that is out of range back into range (none on
\* an empty list, else the last item) or leave it as it is, depending on the
\* widget library and on the area drawn: `adjusts` chooses between the two.
List_render(state, len, adjusts) ==
    IF ~adjusts THEN state
    ELSE IF len = 0 THEN None
    ELSE IF state.kind = "some" /\ state.value >= len THEN Some(len - 1)
    ELSE state

render_platforms(self, adjusts) ==
    [self EXCEPT !.items.state = List_render(@, Len(self.items.items), adjusts)]

render_devices(self, adjusts) ==
    IF self.items.state.kind = "some"
    THEN LET si == self.items.state.value
         IN  IF ~HasPlatform(self, si) THEN [app |-> self, status |-> "unwrap_panic"]
             ELSE Running([self EXCEPT !.items.items[si + 1].devices.state =
                               List_render(@, Len(self.items.items[si + 1].devices.items),
                                           adjusts)])
    ELSE Running(self)

\* The width of the right pane computed by render.
RightPercentage(self) == UnsignedSub(100, self.divider_percentage, U16Modulus)

render(self, adjusts_platforms, adjusts_devices) ==
    LET right == RightPercentage(self)
    IN  IF AfterOverflow(right.overflow) = "overflow_panic"
        THEN [app |-> self, status |-> "overflow_panic"]
        ELSE LET out == render_devices(render_platforms(self, adjusts_platforms),
                                       adjusts_devices)
             IN  IF out.status # "running" THEN out
                 ELSE [app |-> out.app, status |-> AfterOverflow(right.overflow)]

\* The key codes App::run tells apart ("x" stands for every other key), and
\* the events event::read can deliver besides a key press.
KeyCodes == {"q", "Esc", "h", "Left", "j", "Down", "k", "Up", "l", "Right", "Enter",
             "g", "G", "H", "L", "x"}

Events == KeyCodes \cup {"not_a_key_press", "io_error"}

\* The match of App::run: the handler each key code is bound to.
KeyHandler(code) ==
    CASE code \in {"q", "Esc"}            -> "return"
      [] code \in {"h", "Left"}           -> "move_left"
      [] code \in {"j", "Down"}           -> "next"
      [] code \in {"k", "Up"}             -> "previous"
      [] code \in {"l", "Right", "Enter"} -> "move_right"
      [] code = "g"                       -> "go_top"
      [] code = "G"                       -> "go_bottom"
      [] code = "H"                       -> "move_divider(-5)"
      [] code = "L"                       -> "move_divider(5)"
      [] OTHER                            -> "nothing"

Handle(self, code) ==
    LET handler == KeyHandler(code)
    IN  CASE handler = "return"           -> [app |-> self, status |-> "quit"]
          [] handler = "move_left"        -> move_left(self)
          [] handler = "next"             -> App_next(self)
          [] handler = "previous"         -> App_previous(self)
          [] handler = "move_right"       -> move_right(self)
          [] handler = "go_top"           -> go_top(self)
          [] handler = "go_bottom"        -> go_bottom(self)
          [] handler = "move_divider(-5)" -> move_divider(self, -5)
          [] handler = "move_divider(5)"  -> move_divider(self, 5)
          [] OTHER                        -> Running(self)

\* One turn of the loop of App::run: draw, read an event, handle it.
run_iteration(self, event, adjusts_platforms, adjusts_devices) ==
    LET drawn == render(self, adjusts_platforms, adjusts_devices)
    IN  IF drawn.status # "running" THEN drawn
        ELSE IF event = "io_error" THEN [app |-> drawn.app, status |-> "io_error"]
        ELSE IF event \notin KeyCodes THEN drawn
        ELSE Handle(drawn.app, event)

----------------------------------------------------------------------------
(* The state machine: a caller owning one list and calling its methods *)

Self == PriorityList(selected, remaining)

Size == Len(selected) + Len(remaining)

NoneSupplied == [e \in Elems |-> 0]

RECURSIVE SupplyAll(_, _)
SupplyAll(count, v) ==
    IF v = <<>> THEN count
    ELSE SupplyAll([count EXCEPT ![Head(v)] = @ + 1], Tail(v))

\* The effect of a call: the list and the return value become the outcome's,
\* and the call and the list it was made on are recorded.
Apply(c, out) ==
    /\ ret.kind # "panic"
    /\ selected' = out.pl.selected
    /\ remaining' = out.pl.remaining
    /\ ret' = out.ret
    /\ call' = c
    /\ old' = Self
    /\ UNCHANGED appvars

InitNew ==
    /\ selected = new.selected
    /\ remaining = new.remaining
    /\ call = [name |-> "new"]
    /\ ret = Unit
    /\ old = new
    /\ supplied = NoneSupplied
    /\ pushed = <<>>
    /\ appended_only = TRUE

InitFrom ==
    \E value \in SeqsUpTo(MaxLen) :
        /\ selected = from(value).selected
        /\ remaining = from(value).remaining
        /\ call = [name |-> "from", value |-> value]
        /\ ret = Unit
        /\ old = from(value)
        /\ supplied = SupplyAll(NoneSupplied, value)
        /\ pushed = <<>>
        /\ appended_only = FALSE

\* No App is run beside the list.
AppUnused ==
    /\ app = App_new(<<>>)
    /\ status = "running"
    /\ overflow_checks = TRUE

Init == (InitNew \/ InitFrom) /\ AppUnused

CallPush ==
    \E element \in Elems :
        /\ Size < MaxLen
        /\ Apply([name |-> "push", element |-> element], push(Self, element))
        /\ supplied' = [supplied EXCEPT ![element] = @ + 1]
        /\ pushed' = Append(pushed, element)
        /\ UNCHANGED appended_only

CallPushSetFirst ==
    \E element \in Elems :
        /\ Size < MaxLen
        /\ Apply([name |-> "push_set_first", element |-> element],
                 push_set_first(Self, element))
        /\ supplied' = [supplied EXCEPT ![element] = @ + 1]
        /\ appended_only' = FALSE
        /\ UNCHANGED pushed

CallPriorityFirst ==
    /\ Apply([name |-> "priority_first"], priority_first(Self))
    /\ UNCHANGED history

CallPriorityNth ==
    \E n \in Indices :
        /\ Apply([name |-> "priority_nth", n |-> n], priority_nth(Self, n))
        /\ UNCHANGED history

CallViewPriorityList ==
    /\ Apply([name |-> "view_priority_list"], view_priority_list(Self))
    /\ UNCHANGED history

CallViewRemaining ==
    /\ Apply([name |-> "view_remaining"], view_remaining(Self))
    /\ UNCHANGED history

CallSelect ==
    \E n \in Indices :
        /\ Apply([name |-> "select", n |-> n], select(Self, n))
        /\ appended_only' = FALSE
        /\ UNCHANGED <<supplied, pushed>>

CallSelectSetNth ==
    \E n \in Indices, priority_level \in Indices :
        /\ Apply([name |-> "select_set_nth", n |-> n, priority_level |-> priority_level],
                 select_set_nth(Self, n, priority_level))
        /\ appended_only' = FALSE
        /\ UNCHANGED <<supplied, pushed>>

CallSelectSetFirst ==
    \E n \in Indices :
        /\ Apply([name |-> "select_set_first", n |-> n], select_set_first(Self, n))
        /\ appended_only' = FALSE
        /\ UNCHANGED <<supplied, pushed>>

Next ==
    \/ CallPush
    \/ CallPushSetFirst
    \/ CallPriorityFirst
    \/ CallPriorityNth
    \/ CallViewPriorityList
    \/ CallViewRemaining
    \/ CallSelect
    \/ CallSelectSetNth
    \/ CallSelectSetFirst

Spec == Init /\ [][Next]_vars

----------------------------------------------------------------------------
(* The state machine of the application: App::new on the platforms found,  *)
(* then the loop of App::run, one action per arm of its match.             *)

\* The devices of a platform with d devices.
DevicesOf(d) == [k \in 1 .. d |-> k]

RECURSIVE PlatformsUpTo(_)
PlatformsUpTo(k) ==
    IF k = 0 THEN {<<>>}
    ELSE LET fewer == PlatformsUpTo(k - 1)
         IN  fewer \cup {Append(ps, DevicesOf(d)) :
                             ps \in {t \in fewer : Len(t) = k - 1}, d \in 0 .. MaxDevices}

AppInit ==
    /\ InitNew
    /\ \E platforms \in PlatformsUpTo(MaxPlatforms) : app = App_new(platforms)
    /\ status = "running"
    /\ overflow_checks \in BOOLEAN

Iterate(events) ==
    /\ status = "running"
    /\ \E event \in events, adjusts_platforms \in BOOLEAN, adjusts_devices \in BOOLEAN :
           LET out == run_iteration(app, event, adjusts_platforms, adjusts_devices)
           IN  /\ app' = out.app
               /\ status' = out.status
    /\ UNCHANGED <<overflow_checks, listvars>>

KeysBoundTo(handler) == {code \in KeyCodes : KeyHandler(code) = handler}

KeyQuit == Iterate(KeysBoundTo("return"))

KeyMoveLeft == Iterate(KeysBoundTo("move_left"))

KeyNext == Iterate(KeysBoundTo("next"))

KeyPrevious == Iterate(KeysBoundTo("previous"))

KeyMoveRight == Iterate(KeysBoundTo("move_right"))

KeyGoTop == Iterate(KeysBoundTo("go_top"))

KeyGoBottom == Iterate(KeysBoundTo("go_bottom"))

KeyDividerLeft == Iterate(KeysBoundTo("move_divider(-5)"))

KeyDividerRight == Iterate(KeysBoundTo("move_divider(5)"))

KeyOther == Iterate(KeysBoundTo("nothing"))

NoKeyPress == Iterate({"not_a_key_press"})

ReadFails == Iterate({"io_error"})

AppNext ==
    \/ KeyQuit
    \/ KeyMoveLeft
    \/ KeyNext
    \/ KeyPrevious
    \/ KeyMoveRight
    \/ KeyGoTop
    \/ KeyGoBottom
    \/ KeyDividerLeft
    \/ KeyDividerRight
    \/ KeyOther
    \/ NoKeyPress
    \/ ReadFails

AppSpec == AppInit /\ [][AppNext]_vars

----------------------------------------------------------------------------
TypeOK ==
    /\ \A k \in 1 .. Len(selected) : selected[k] \in Elems
    /\ \A k \in 1 .. Len(remaining) : remaining[k] \in Elems
    /\ Size <= MaxLen
    /\ ret.kind \in {"unit", "none", "some", "iter", "panic"}

----------------------------------------------------------------------------
(* Vocabulary of the properties *)

\* s without the element at Rust index i.
Without(s, i) == [k \in 1 .. (Len(s) - 1) |-> IF k <= i THEN s[k] ELSE s[k + 1]]

\* s with e put at Rust index r, the elements from r on moved down by one.
InsertedAt(s, r, e) ==
    [k \in 1 .. (Len(s) + 1) |-> IF k <= r THEN s[k] ELSE IF k = r + 1 THEN e ELSE s[k - 1]]

Range(s) == {s[k] : k \in 1 .. Len(s)}

NoDuplicate(s) == \A i, j \in 1 .. Len(s) : s[i] = s[j] => i = j

Promotions == {"select", "select_set_nth", "select_set_first"}

Reads == {"view_priority_list", "view_remaining", "priority_first", "priority_nth"}

ListUnchanged == selected = old.selected /\ remaining = old.remaining

----------------------------------------------------------------------------
\* C1: select(i) with i < len(remaining) removes remaining[i] from remaining
\* and appends it as the last element of selected; the other elements keep
\* their order and the total number of elements is unchanged.
C1_PromoteMovesElement ==
    (call.name = "select" /\ call.n < Len(old.remaining)) =>
        /\ ret.kind = "unit"
        /\ remaining = Without(old.remaining, call.n)
        /\ selected = Append(old.selected, old.remaining[call.n + 1])
        /\ Len(selected) + Len(remaining) = Len(old.selected) + Len(old.remaining)

\* C2: select(n), select_set_nth(n, r) and select_set_first(n) with n out of
\* range for remaining (n >= len) return without panicking and leave both
\* sequences as they were.
C2_OutOfRangeIsNoOp ==
    (call.name \in Promotions /\ call.n >= Len(old.remaining)) =>
        /\ ret.kind # "panic"
        /\ ListUnchanged

\* C3: select_set_nth(i, r) with i valid in remaining and r <= len(selected)
\* removes remaining[i] and inserts it into selected at rank r;
\* select_set_first(i) gives the result of select_set_nth(i, 0); after new(),
\* push(1), push(3), push(77), select_set_first(0) the list is [1] / [3, 77].
C3_PromoteToRank ==
    /\ (/\ call.name = "select_set_nth"
        /\ call.n < Len(old.remaining)
        /\ call.priority_level <= Len(old.selected)) =>
            /\ ret.kind = "unit"
            /\ remaining = Without(old.remaining, call.n)
            /\ selected = InsertedAt(old.selected, call.priority_level,
                                     old.remaining[call.n + 1])
    /\ (call.name = "select_set_first" /\ call.n < Len(old.remaining)) =>
            /\ ret.kind = "unit"
            /\ Self = select_set_nth(old, call.n, 0).pl
            /\ remaining = Without(old.remaining, call.n)
            /\ selected = InsertedAt(old.selected, 0, old.remaining[call.n + 1])
    /\ (/\ call = [name |-> "select_set_first", n |-> 0]
        /\ old = PriorityList(<<>>, <<1, 3, 77>>)) =>
            /\ selected = <<1>>
            /\ remaining = <<3, 77>>

----------------------------------------------------------------------------
\* C4: partition invariant.  If the elements supplied so far (by from, push
\* and push_set_first) are pairwise distinct, then no element is in both
\* sequences, none occurs twice in either, and the elements of the two
\* sequences together are exactly those supplied.
AllDistinct == \A e \in Elems : supplied[e] <= 1

C4_Partition ==
    AllDistinct =>
        /\ Range(selected) \cap Range(remaining) = {}
        /\ NoDuplicate(selected)
        /\ NoDuplicate(remaining)
        /\ Range(selected) \cup Range(remaining) = {e \in Elems : supplied[e] > 0}

\* A promotion has been called with a valid index on a list of distinct
\* elements that has both prioritized and remaining elements.
C4_Witness ==
    /\ AllDistinct
    /\ call.name \in Promotions
    /\ call.n < Len(old.remaining)
    /\ old.selected # <<>>
    /\ ret.kind = "unit"

----------------------------------------------------------------------------
\* C5: push(e) never fails, adds e as the last element of remaining and
\* leaves selected unchanged; on a list made by new() on which only push (and
\* reads) were called, remaining is the pushed elements in insertion order and
\* selected is empty: push(1), push(3), push(77) gives [1, 3, 77] and [].
C5_Append ==
    /\ call.name = "push" =>
            /\ ret.kind = "unit"
            /\ remaining = Append(old.remaining, call.element)
            /\ selected = old.selected
    /\ appended_only =>
            /\ view_remaining(Self).ret = Iter(pushed)
            /\ view_priority_list(Self).ret = Iter(<<>>)
    /\ (appended_only /\ pushed = <<1, 3, 77>>) =>
            /\ remaining = <<1, 3, 77>>
            /\ selected = <<>>

\* new(); push(1); push(3); push(77) has been run.
C5_Witness ==
    /\ appended_only
    /\ pushed = <<1, 3, 77>>
    /\ call = [name |-> "push", element |-> 77]

----------------------------------------------------------------------------
\* C6: push_set_first(e) never fails, puts e at rank 0 of selected, moves
\* every element that was at rank k to rank k + 1, and leaves remaining
\* unchanged; on an empty list, inserting 5 and then 9 gives selected = [9, 5].
C6_InsertAsTopPriority ==
    /\ call.name = "push_set_first" =>
            /\ ret.kind = "unit"
            /\ Len(selected) = Len(old.selected) + 1
            /\ selected[1] = call.element
            /\ \A k \in 1 .. Len(old.selected) : selected[k + 1] = old.selected[k]
            /\ remaining = old.remaining
    /\ (call = [name |-> "push_set_first", element |-> 5] /\ old = new) =>
            Self = PriorityList(<<5>>, <<>>)
    /\ (call = [name |-> "push_set_first", element |-> 9]
            /\ old = PriorityList(<<5>>, <<>>)) =>
            Self = PriorityList(<<9, 5>>, <<>>)

\* push_set_first(9) has been called on the list whose only element is the
\* prioritized 5.
C6_Witness ==
    /\ call = [name |-> "push_set_first", element |-> 9]
    /\ old = PriorityList(<<5>>, <<>>)
    /\ selected = <<9, 5>>

----------------------------------------------------------------------------
\* C7: priority_first() returns what priority_nth(0) returns: selected[0] when
\* selected is non-empty, none when it is empty; priority_nth(n) returns
\* selected[n] when n < len(selected) and none otherwise, and never panics.
AtRank(v, n) == IF n < Len(v) THEN Some(v[n + 1]) ELSE None

C7_PriorityAtRank ==
    /\ priority_first(Self).ret = priority_nth(Self, 0).ret
    /\ priority_first(Self).ret = AtRank(selected, 0)
    /\ \A n \in Indices : priority_nth(Self, n).ret = AtRank(selected, n)
    /\ call.name = "priority_first" => ret = AtRank(old.selected, 0)
    /\ call.name = "priority_nth" => ret = AtRank(old.selected, call.n)

\* priority_nth has returned the element at a rank other than the first.
C7_Witness ==
    /\ call.name = "priority_nth"
    /\ call.n >= 1
    /\ call.n < Len(selected)
    /\ ret = Some(selected[call.n + 1])

----------------------------------------------------------------------------
\* C8: from(seq) yields selected = seq, in the same order, and remaining = [];
\* new() yields selected = [] and remaining = [].
C8_Construction ==
    /\ call.name = "from" => (selected = call.value /\ remaining = <<>>)
    /\ call.name = "new" => (selected = <<>> /\ remaining = <<>>)

\* A list has been constructed from a sequence of at least two elements that
\* are not all the same.
C8_Witness ==
    /\ call.name = "from"
    /\ Len(call.value) >= 2
    /\ call.value[1] # call.value[2]

----------------------------------------------------------------------------
\* C9: view_priority_list(), view_remaining(), priority_first() and
\* priority_nth(n) leave both sequences unchanged; each view returns the
\* current content of its sequence in order, so a view repeated with no
\* mutation in between returns an equal sequence.
C9_ReadsChangeNothing ==
    /\ call.name \in Reads => ListUnchanged
    /\ call.name = "view_priority_list" => ret = Iter(selected)
    /\ call.name = "view_remaining" => ret = Iter(remaining)
    /\ view_priority_list(view_priority_list(Self).pl).ret = Iter(selected)
    /\ view_remaining(view_remaining(Self).pl).ret = Iter(remaining)

\* view_remaining has been called on a list whose two sequences differ.
C9_Witness ==
    /\ call.name = "view_remaining"
    /\ Len(remaining) >= 2
    /\ selected # <<>>
    /\ selected # remaining

----------------------------------------------------------------------------
\* C10: select_set_nth(i, r) with i valid in remaining and r > len(selected)
\* does not panic and follows one policy for all such i and r: the element is
\* moved to the end of selected (clamped), or nothing changes; the element is
\* never removed from remaining without being placed in selected.
RankBeyondEnd(self, n, priority_level) ==
    n < Len(self.remaining) /\ priority_level > Len(self.selected)

Policy(self, n, out) ==
    IF out.ret.kind = "panic" THEN "panic"
    ELSE IF out.pl = self THEN "no effect"
    ELSE IF /\ out.pl.remaining = Without(self.remaining, n)
            /\ out.pl.selected = Append(self.selected, self.remaining[n + 1])
         THEN "clamped"
    ELSE "other"

----------------------------------------------------------------------------
----------------------------------------------------------------------------
\* C11: App::run reacts to a "promote" key by calling an operation that
\* changes which items are prioritized: some key is bound to the handler that
\* changes the status of the selected item, and that handler changes the App;
\* move down, move up, go to top and go to bottom are each bound to a key.
NavigationHandlers == {"next", "previous", "go_top", "go_bottom"}

C11_PromoteKeyBound ==
    /\ \A handler \in NavigationHandlers : KeysBoundTo(handler) # {}
    /\ \E code \in KeyCodes :
           /\ KeyHandler(code) = "change_status"
           /\ change_status(app).app # app

----------------------------------------------------------------------------
\* C13: after any sequence of key events, for every platform list (an empty
\* one and platforms without devices included), the cursor of the platform
\* list and of every device list is unset or an index below the list's length,
\* and no handler has underflowed computing length - 1; on a non-empty list
\* next from the last index gives 0 and previous from 0 gives the last index.
ValidCursor(list) ==
    list.state.kind = "some" => list.state.value < Len(list.items)

AtLast(list) == list.state = Some(Len(list.items) - 1)

AtFirst(list) == list.state = Some(0)

DeviceLists == {app.items.items[p].devices : p \in 1 .. Len(app.items.items)}

C13_CursorsValid ==
    /\ status \notin {"overflow_panic", "wrapped"}
    /\ ValidCursor(app.items)
    /\ \A list \in DeviceLists : ValidCursor(list)
    /\ Len(app.items.items) > 0 =>
           /\ AtLast(app.items) => PlatformList_next(app.items).list.state = Some(0)
           /\ AtFirst(app.items) => AtLast(PlatformList_previous(app.items).list)
    /\ \A list \in DeviceLists :
           Len(list.items) > 0 =>
               /\ AtLast(list) => DeviceList_next(list).list.state = Some(0)
               /\ AtFirst(list) => AtLast(DeviceList_previous(list).list)

----------------------------------------------------------------------------
\* C14: from the initial 40, whatever keys are pressed, divider_percentage
\* stays within 0..=100 ('H' subtracts 5 and stops at 0, 'L' adds 5 and stops
\* at 100), so 100 - divider_percentage in render never underflows; no other
\* key, and no drawing, changes divider_percentage.
Divider == app.divider_percentage

C14_DividerInRange ==
    /\ Divider \in 0 .. 100
    /\ RightPercentage(app) = [value |-> 100 - Divider, overflow |-> FALSE]
    /\ \A code \in KeyCodes :
           LET out == Handle(app, code)
           IN  out.app.divider_percentage =
                   CASE code = "H" -> (IF Divider >= 5 THEN Divider - 5 ELSE 0)
                     [] code = "L" -> (IF Divider <= 95 THEN Divider + 5 ELSE 100)
                     [] OTHER      -> Divider
    /\ \A adjusts_platforms \in BOOLEAN, adjusts_devices \in BOOLEAN :
           LET drawn == render(app, adjusts_platforms, adjusts_devices)
           IN  /\ drawn.app.divider_percentage = Divider
               /\ drawn.status \in {"running", "unwrap_panic"}

\* 'L' has been pressed until the divider stands at its cap; the loop runs on.
C14_Witness ==
    /\ Divider = 100
    /\ status = "running"

====
